---------------------------- MODULE Spec2Model ----------------------------
(***************************************************************************)
(* Model of the earnings-calendar generator (automation_calendar.py): the  *)
(* time-tag normaliser, the start-time resolver and the flow that turns    *)
(* the rows of the NextPerTicker sheet into calendar events; and of the    *)
(* collector of the announcement dates (earns_calendar.py): build_calendar *)
(* over the answers of blp.bds.                                            *)
(*                                                                         *)
(* Representation.  A Python str is a sequence of one-character strings,   *)
(* so that strip, upper, replace, re.match and join are computed character *)
(* by character.  None is the one-element sequence <<"None">>, which no    *)
(* str equals.  A datetime.time is <<hour, minute>>, a datetime.date is    *)
(* <<year, month, day>>, pandas' NaT is <<"NaT">>.                         *)
(***************************************************************************)
EXTENDS Integers, Sequences, FiniteSets, TLC

VARIABLES
    input_exists,       \* Path(INPUT_XLSX).exists()
    df,                 \* the sheet read by pd.read_excel: columns and rows
    pc,                 \* position of the flow: start, loop, write, done, failed
    error,              \* the exception the flow raised, None when none
    hour_col,           \* pick_hour_col(df)
    idx,                \* number of rows df.iterrows() has yielded so far
    cal,                \* cal.events
    eventos_criados,
    eventos_ignorados,
    output_file,        \* OUTPUT_DIR / OUTPUT_FILENAME on disk
    runs,               \* number of times the flow has been started
    call,               \* arguments of a direct call of determine_start_time
    ret,                \* what that call returned
    sector_map,         \* build_calendar: the dict of sector -> BBG tickers
    base,               \* build_calendar: flatten_sector_dict(sector_map)
    pos,                \* build_calendar: rows of base gone through
    bc_rows,            \* build_calendar: rows (the calendar)
    invalid,            \* build_calendar: invalid
    bds_log             \* the calls of blp.bds so far: ticker and answer

\* the state of build_calendar (earns_calendar.py)
bvars == << sector_map, base, pos, bc_rows, invalid, bds_log >>

vars == << input_exists, df, pc, error, hour_col, idx, cal, eventos_criados,
           eventos_ignorados, output_file, runs, call, ret, bvars >>

\* bounds of the model
MaxRows == 2        \* rows of a sheet
MaxRuns == 2        \* runs of the flow over one workbook

None == <<"None">>
NaT == <<"NaT">>
ValueError == <<"ValueError">>
KeyError == <<"KeyError">>
FileNotFoundError == <<"FileNotFoundError">>

---------------------------------------------------------------------------
(* str methods and the re patterns the program uses *)

Digits == <<"0","1","2","3","4","5","6","7","8","9">>
LowerChars == <<"a","b","c","d","e","f","g","h","i","j","k","l","m",
                "n","o","p","q","r","s","t","u","v","w","x","y","z">>
UpperChars == <<"A","B","C","D","E","F","G","H","I","J","K","L","M",
                "N","O","P","Q","R","S","T","U","V","W","X","Y","Z">>
Whitespace == {" ", "\t", "\n"}

IsDigit(c) == \E i \in 1..10 : Digits[i] = c
DigitVal(c) == (CHOOSE i \in 1..10 : Digits[i] = c) - 1

UpperChar(c) ==
    IF \E i \in 1..26 : LowerChars[i] = c
    THEN UpperChars[CHOOSE i \in 1..26 : LowerChars[i] = c]
    ELSE c
LowerChar(c) ==
    IF \E i \in 1..26 : UpperChars[i] = c
    THEN LowerChars[CHOOSE i \in 1..26 : UpperChars[i] = c]
    ELSE c

upper(s) == [i \in 1..Len(s) |-> UpperChar(s[i])]
lower(s) == [i \in 1..Len(s) |-> LowerChar(s[i])]

RECURSIVE lstrip(_)
lstrip(s) == IF s # <<>> /\ Head(s) \in Whitespace THEN lstrip(Tail(s)) ELSE s
RECURSIVE rstrip(_)
rstrip(s) ==
    IF s # <<>> /\ s[Len(s)] \in Whitespace
    THEN rstrip(SubSeq(s, 1, Len(s) - 1))
    ELSE s
strip(s) == rstrip(lstrip(s))

StartsWith(s, p) == Len(s) >= Len(p) /\ SubSeq(s, 1, Len(p)) = p

\* s.replace(old, new), old not empty: leftmost non-overlapping occurrences
RECURSIVE replace(_, _, _)
replace(s, old, new) ==
    IF Len(s) < Len(old) THEN s
    ELSE IF StartsWith(s, old)
         THEN new \o replace(SubSeq(s, Len(old) + 1, Len(s)), old, new)
         ELSE <<Head(s)>> \o replace(Tail(s), old, new)

\* sep.join(parts)
RECURSIVE join(_, _)
join(sep, parts) ==
    IF parts = <<>> THEN <<>>
    ELSE IF Len(parts) = 1 THEN parts[1]
    ELSE parts[1] \o sep \o join(sep, Tail(parts))

\* int(s) for a str of decimal digits
RECURSIVE int(_)
int(s) ==
    IF s = <<>> THEN 0
    ELSE 10 * int(SubSeq(s, 1, Len(s) - 1)) + DigitVal(s[Len(s)])

\* '%02d' and '%04d'
Fmt02(n) == << Digits[((n \div 10) % 10) + 1], Digits[(n % 10) + 1] >>
Fmt04(n) == Fmt02(n \div 100) \o Fmt02(n % 100)

\* length of the longest prefix of s made of digits (what a greedy \d+ takes)
RECURSIVE DigitRun(_)
DigitRun(s) == IF s # <<>> /\ IsDigit(Head(s)) THEN 1 + DigitRun(Tail(s)) ELSE 0

\* re.match(r"^(\d{1,2}):(\d{2})$", s): the two groups, or None
MatchHHMM(s) ==
    LET n == DigitRun(s)
    IN  IF /\ n \in {1, 2}
           /\ Len(s) = n + 3
           /\ s[n + 1] = ":"
           /\ IsDigit(s[n + 2])
           /\ IsDigit(s[n + 3])
        THEN << SubSeq(s, 1, n), SubSeq(s, n + 2, n + 3) >>
        ELSE None

\* re.match(r"(\d+)<letter>(\d{2})", s): a match at the start of s, the rest
\* of s is free; the two groups, or None
MatchQuarter(s, letter) ==
    LET n == DigitRun(s)
    IN  IF /\ n >= 1
           /\ Len(s) >= n + 3
           /\ s[n + 1] = letter
           /\ IsDigit(s[n + 2])
           /\ IsDigit(s[n + 3])
        THEN << SubSeq(s, 1, n), SubSeq(s, n + 2, n + 3) >>
        ELSE None

---------------------------------------------------------------------------
(* datetime *)

\* datetime.time(h, mi) raises ValueError outside 0..23, 0..59
time(h, mi) == IF h \in 0..23 /\ mi \in 0..59 THEN <<h, mi>> ELSE ValueError

IsLeap(y) == ((y % 4) = 0 /\ (y % 100) # 0) \/ (y % 400) = 0
DaysInMonth(y, m) ==
    IF m = 2 THEN (IF IsLeap(y) THEN 29 ELSE 28)
    ELSE IF m \in {4, 6, 9, 11} THEN 30 ELSE 31

IsDate(y, m, d) == m \in 1..12 /\ d >= 1 /\ d <= DaysInMonth(y, m)

\* d - timedelta(days=1)
PrevDay(d) ==
    IF d[3] > 1 THEN << d[1], d[2], d[3] - 1 >>
    ELSE IF d[2] > 1 THEN << d[1], d[2] - 1, DaysInMonth(d[1], d[2] - 1) >>
    ELSE << d[1] - 1, 12, 31 >>

\* d + timedelta(days=1)
NextDay(d) ==
    IF d[3] < DaysInMonth(d[1], d[2]) THEN << d[1], d[2], d[3] + 1 >>
    ELSE IF d[2] < 12 THEN << d[1], d[2] + 1, 1 >>
    ELSE << d[1] + 1, 1, 1 >>

\* t.strftime('%H:%M')
strftime(t) == Fmt02(t[1]) \o <<":">> \o Fmt02(t[2])

\* d.isoformat()
isoformat(d) == Fmt04(d[1]) \o <<"-">> \o Fmt02(d[2]) \o <<"-">> \o Fmt02(d[3])

---------------------------------------------------------------------------
(* CONFIGURAÇÕES *)

EVENT_DURATION_MIN == 30

\* ZoneInfo("America/Sao_Paulo")
TZ == "America/Sao_Paulo"

AFT_MKT == <<"A","F","T","-","M","K","T">>
BEF_MKT == <<"B","E","F","-","M","K","T">>
DUR_MKT == <<"D","U","R","-","M","K","T">>
AFTMKT == <<"A","F","T","M","K","T">>
BEFMKT == <<"B","E","F","M","K","T">>
DURMKT == <<"D","U","R","M","K","T">>
str_aft_mkt == <<"a","f","t","-","m","k","t">>

DEFAULT_TIME_MAP ==
    (AFT_MKT :> time(18, 0)) @@ (BEF_MKT :> time(8, 0)) @@ (DUR_MKT :> time(12, 0))

str_Pos_mercado == <<"P","ó","s","-","m","e","r","c","a","d","o">>
str_Pre_mercado == <<"P","r","é","-","m","e","r","c","a","d","o">>
str_Durante_mercado == <<"D","u","r","a","n","t","e"," ","m","e","r","c","a","d","o">>

MARKET_PT ==
    (AFT_MKT :> str_Pos_mercado) @@ (BEF_MKT :> str_Pre_mercado)
        @@ (DUR_MKT :> str_Durante_mercado)

COBERTURA_ARTHUR ==
    << <<"B","a","n","c","o","s">>,
       <<"F","i","n","a","n","c","i","a","l","s"," ","E","x","-","B","a","n","c","o","s">>,
       <<"C","o","n","s","u","m","o"," ","-"," ","M","i","g","u","e","l">>,
       <<"P","r","o","p","e","r","t","i","e","s">>,
       <<"H","o","m","e","b","u","i","l","d","e","r","s">>,
       <<"S","t","a","p","l","e","s">>,
       <<"R","e","t","a","i","l">>,
       <<"E","-","c","o","m","m","e","r","c","e">>,
       <<"H","e","a","l","t","h","c","a","r","e">> >>

COBERTURA_PAULO ==
    << <<"E","l","é","t","r","i","c","a","s">>,
       <<"R","o","d","o","v","i","a","s"," ","+"," ","L","o","g","i","s","t","i","c","s"," ","I","n","f","r","a","s","t","r","u","c","t","u","r","e">>,
       <<"I","n","d","u","s","t","r","i","a","l","s"," ","+"," ","G","e","s","t","ã","o"," ","d","e"," ","R","e","s","í","d","u","o","s">>,
       <<"M","e","t","a","l","s"," ","&"," ","M","i","n","i","n","g">>,
       <<"P","u","l","p"," ","&"," ","P","a","p","e","r">>,
       <<"T","M","T">>,
       <<"O","i","l"," ","&"," ","G","a","s">>,
       <<"R","e","n","t","a","l","s">> >>

Arthur == <<"A","r","t","h","u","r">>
Paulo == <<"P","a","u","l","o">>

HORARIO_NOTIFICACAO == (Arthur :> time(7, 0)) @@ (Paulo :> time(8, 0))

str_nan == <<"n","a","n">>
str_Resultados == <<"R","e","s","u","l","t","a","d","o","s">>
str_Notificacao == <<"N","o","t","i","f","i","c","a","ç","ã","o"," ">>
str_title_mid == <<"]"," ","-"," ","D","i","v","u","l","g","a","ç","ã","o"," ","d","e"," ">>
str_Ticker_ == <<"T","i","c","k","e","r",":"," ">>
str_Data_ == <<"D","a","t","a",":"," ">>
str_Horario_ == <<"H","o","r","á","r","i","o",":"," ">>
str_Periodo_ == <<"P","e","r","í","o","d","o",":"," ">>
str_Setor_ == <<"S","e","t","o","r",":"," ">>
str_Analista_ == <<"A","n","a","l","i","s","t","a",":"," ">>

---------------------------------------------------------------------------
(* FUNÇÕES AUXILIARES *)

\* re.sub(r"\d+", "", ticker)
remove_numbers_from_ticker(ticker) == SelectSeq(ticker, LAMBDA c : ~IsDigit(c))

\* raw is None or a str (pd.isna of a str is False)
normalize_market_tag(raw) ==
    IF raw = None THEN None
    ELSE LET s == strip(raw)
             u0 == replace(replace(upper(s), <<" ">>, <<>>), <<"_">>, <<"-">>)
             u == replace(replace(replace(u0, AFTMKT, AFT_MKT),
                                  BEFMKT, BEF_MKT), DURMKT, DUR_MKT)
         IN  IF s = <<>> THEN None
             ELSE IF u \in DOMAIN DEFAULT_TIME_MAP THEN u ELSE None

\* parse_hhmm without the test of the ranges of hour and minute
parse_hhmm_unchecked(raw) ==
    IF raw = None THEN None
    ELSE LET s == strip(raw)
             m == MatchHHMM(s)
         IN  IF s = <<>> THEN None
             ELSE IF m = None THEN None
             ELSE time(int(m[1]), int(m[2]))

parse_hhmm(raw) ==
    IF raw = None THEN None
    ELSE LET s == strip(raw)
             m == MatchHHMM(s)
         IN  IF s = <<>> THEN None
             ELSE IF m = None THEN None
             ELSE LET h == int(m[1])
                      mi == int(m[2])
                  IN  IF 0 <= h /\ h <= 23 /\ 0 <= mi /\ mi <= 59
                      THEN time(h, mi)
                      ELSE None

\* uuid.uuid5(namespace, name): a SHA-1 digest of namespace and name, taken
\* as collision-free, so the uuid stands for the pair it was computed from
uuid5(namespace, name) == [namespace |-> namespace, name |-> name]

stable_uid(parts) == uuid5("NAMESPACE_URL", join(<<"|">>, parts))

possible_cols == << "Hora", "Hora (raw)", "Hora (parsed)", "announcement_time" >>

pick_hour_col(columns) ==
    IF \E i \in 1..Len(possible_cols) : possible_cols[i] \in columns
    THEN possible_cols[CHOOSE i \in 1..Len(possible_cols) :
                          /\ possible_cols[i] \in columns
                          /\ \A j \in 1..(i - 1) : possible_cols[j] \notin columns]
    ELSE "None"       \* a column name is one string; "None" names no column

InList(x, list) == \E i \in 1..Len(list) : list[i] = x

\* get_analyst_from_sector returning the first group for either list
get_analyst_from_sector_same_name(setor) ==
    IF InList(setor, COBERTURA_ARTHUR) THEN Arthur
    ELSE IF InList(setor, COBERTURA_PAULO) THEN Arthur
    ELSE None

get_analyst_from_sector(setor) ==
    IF InList(setor, COBERTURA_ARTHUR) THEN Arthur
    ELSE IF InList(setor, COBERTURA_PAULO) THEN Paulo
    ELSE None

\* datetime.combine(d, t).replace(tzinfo=TZ), an aware datetime
\* <<date, time, tzinfo>>; ValueError when t is no time
combine(d, t) == IF t = ValueError THEN ValueError ELSE << d, t, TZ >>

\* dt + timedelta(minutes=n), 0 <= n < 1440: wall-clock arithmetic in dt's zone
AddMinutes(dt, n) ==
    LET total == dt[2][1] * 60 + dt[2][2] + n
    IN  IF total < 1440
        THEN << dt[1], << total \div 60, total % 60 >>, dt[3] >>
        ELSE << NextDay(dt[1]), << (total - 1440) \div 60, (total - 1440) % 60 >>, dt[3] >>

\* the day before is taken for the pre-market tag instead
event_date_of_bef(d, mkt) == IF lower(mkt) \in {lower(BEF_MKT)} THEN PrevDay(d) ELSE d

\* event_date of a session tag: the day before for aft-mkt, else the day given
event_date_of(d, mkt) == IF lower(mkt) \in {str_aft_mkt} THEN PrevDay(d) ELSE d

\* determine_start_time with the session tag tested before the explicit time
determine_start_time_tag_first(d, setor, hhmm, mkt) ==
    IF mkt # None
    THEN << combine(IF mkt = AFT_MKT THEN PrevDay(d) ELSE d, DEFAULT_TIME_MAP[mkt]),
            MARKET_PT[mkt] >>
    ELSE IF hhmm # None
    THEN << combine(d, hhmm), strftime(hhmm) >>
    ELSE LET analyst == get_analyst_from_sector(setor)
         IN  IF analyst # None
             THEN << combine(d, HORARIO_NOTIFICACAO[analyst]),
                     str_Notificacao \o analyst \o <<" ", "(">>
                         \o strftime(HORARIO_NOTIFICACAO[analyst]) \o <<")">> >>
             ELSE << combine(d, time(18, 0)), str_Pos_mercado >>

\* the pair (start_dt, timing label); KeyError when DEFAULT_TIME_MAP has no mkt
determine_start_time(d, setor, hhmm, mkt) ==
    IF hhmm # None
    THEN << combine(d, hhmm), strftime(hhmm) >>
    ELSE IF mkt # None
    THEN IF mkt \notin DOMAIN DEFAULT_TIME_MAP THEN KeyError
         ELSE LET default_time == DEFAULT_TIME_MAP[mkt]
                  event_date == event_date_of(d, mkt)
              IN  << combine(event_date, default_time),
                     IF mkt \in DOMAIN MARKET_PT THEN MARKET_PT[mkt] ELSE mkt >>
    ELSE LET analyst == get_analyst_from_sector(setor)
         IN  IF analyst # None
             THEN LET notify_time == HORARIO_NOTIFICACAO[analyst]
                  IN  << combine(d, notify_time),
                         str_Notificacao \o analyst \o <<" ", "(">>
                             \o strftime(notify_time) \o <<")">> >>
             ELSE << combine(d, time(18, 0)), str_Pos_mercado >>

\* periodo is None or a str
extract_period_quarter(periodo) ==
    IF periodo = None \/ periodo = <<>> THEN str_Resultados
    ELSE LET periodo_str == strip(periodo)
             match == MatchQuarter(periodo_str, "T")
         IN  IF MatchQuarter(periodo_str, "Q") # None THEN periodo_str
             ELSE IF match # None THEN match[1] \o <<"Q">> \o match[2]
             ELSE periodo_str

---------------------------------------------------------------------------
(* The sheet.  A cell is what pd.read_excel gives for it: NaN for an empty *)
(* cell, a str, a datetime.time or a date (Timestamp at midnight).  A row  *)
(* holds one cell for each of Ticker, Data, Setor, Período and the hour    *)
(* column, whatever name the sheet gives that column.                      *)

NaN == [kind |-> "nan", val |-> <<>>]
Text(s) == [kind |-> "text", val |-> s]
TimeCell(h, mi) == [kind |-> "time", val |-> <<h, mi>>]
DateCell(y, m, d) == [kind |-> "date", val |-> <<y, m, d>>]

\* pd.isna(cell)
isna(cell) == cell.kind = "nan"

\* str(x) of a cell, and of None
str(cell) ==
    CASE cell.kind = "nan" -> str_nan
      [] cell.kind = "text" -> cell.val
      [] cell.kind = "time" -> strftime(cell.val) \o <<":","0","0">>
      [] cell.kind = "date" ->
            isoformat(cell.val) \o <<" ","0","0",":","0","0",":","0","0">>
str_or_None(x) == IF x = None THEN <<"N","o","n","e">> ELSE x

\* a str of the form YYYY-MM-DD naming a calendar date, else NaT
ParseISO(s) ==
    IF /\ Len(s) = 10
       /\ \A i \in {1, 2, 3, 4, 6, 7, 9, 10} : IsDigit(s[i])
       /\ s[5] = "-" /\ s[8] = "-"
       /\ IsDate(int(SubSeq(s, 1, 4)), int(SubSeq(s, 6, 7)), int(SubSeq(s, 9, 10)))
    THEN << int(SubSeq(s, 1, 4)), int(SubSeq(s, 6, 7)), int(SubSeq(s, 9, 10)) >>
    ELSE NaT

\* pd.to_datetime(cell, errors="coerce") followed by .date(); NaT when the
\* cell is empty or cannot be parsed (of the texts pandas can parse, the
\* sheets modelled here hold only ISO dates)
to_datetime(cell) ==
    CASE cell.kind = "date" -> cell.val
      [] cell.kind = "text" -> ParseISO(strip(cell.val))
      [] OTHER -> NaT

---------------------------------------------------------------------------
(* FLUXO PRINCIPAL: one iteration of the loop over df.iterrows() *)

required_cols == << "Ticker", "Data" >>

\* only the first required column is looked for
missing_cols_first_only(columns) ==
    SelectSeq(SubSeq(required_cols, 1, 1), LAMBDA col : col \notin columns)

missing_cols(columns) == SelectSeq(required_cols, LAMBDA col : col \notin columns)

ticker_of(row) == strip(str(row.Ticker))

setor_of(row, columns) ==
    IF "Setor" \in columns THEN strip(str(row.Setor)) ELSE <<>>

periodo_of(row, columns) ==
    IF "Período" \in columns THEN strip(str(row.Periodo)) ELSE None

raw_time_str_of(row, hcol) ==
    IF hcol = "None" THEN None
    ELSE IF isna(row.Hora) THEN None
    ELSE strip(str(row.Hora))

\* the ticker test without its "nan" half
ticker_invalid_empty_only(ticker) == ticker = <<>>

\* the two tests that end an iteration with eventos_ignorados += 1
ticker_invalid(ticker) == ticker = <<>> \/ lower(ticker) = str_nan

row_ignored(row) ==
    ticker_invalid(ticker_of(row)) \/ to_datetime(row.Data) = NaT

make_title(ticker_clean, period_label, time_desc) ==
    <<"[">> \o ticker_clean \o str_title_mid \o period_label
        \o (IF time_desc # <<>> /\ time_desc # str_Resultados
            THEN <<" ", "(">> \o time_desc \o <<")">>
            ELSE <<>>)

make_desc_lines(ticker_clean, data, time_desc, periodo, setor) ==
    << str_Ticker_ \o ticker_clean,
       str_Data_ \o isoformat(data),
       str_Horario_ \o time_desc >>
    \o (IF periodo # None /\ periodo # <<>> /\ lower(periodo) # str_nan
        THEN << str_Periodo_ \o periodo >> ELSE <<>>)
    \o (IF setor # <<>> /\ lower(setor) # str_nan
        THEN << str_Setor_ \o setor >>
             \o (IF get_analyst_from_sector(setor) # None
                 THEN << str_Analista_ \o get_analyst_from_sector(setor) >>
                 ELSE <<>>)
        ELSE <<>>)

\* hhmm, mkt and the result of determine_start_time for a row
start_of(row, columns, hcol) ==
    LET raw_time_str == raw_time_str_of(row, hcol)
    IN  determine_start_time(to_datetime(row.Data), setor_of(row, columns),
                             parse_hhmm(raw_time_str),
                             normalize_market_tag(raw_time_str))

\* event.uid with the ticker of the sheet in place of ticker_clean
event_uid_raw_ticker(row, columns, hcol) ==
    stable_uid(<< ticker_of(row),
                  str_or_None(periodo_of(row, columns)),
                  isoformat(to_datetime(row.Data)),
                  start_of(row, columns, hcol)[2] >>)

\* event.uid = stable_uid(ticker_clean, str(periodo), data.isoformat(), time_desc)
event_uid(row, columns, hcol) ==
    stable_uid(<< remove_numbers_from_ticker(ticker_of(row)),
                  str_or_None(periodo_of(row, columns)),
                  isoformat(to_datetime(row.Data)),
                  start_of(row, columns, hcol)[2] >>)

\* the exception an iteration raises on a row that is not ignored, else None
row_exception(row, columns, hcol) ==
    LET st == start_of(row, columns, hcol)
    IN  IF parse_hhmm(raw_time_str_of(row, hcol)) = ValueError THEN ValueError
        ELSE IF st = KeyError THEN KeyError
        ELSE IF st[1] = ValueError THEN ValueError
        ELSE None

\* the Event built from a row that is not ignored and raises nothing
build_event(row, columns, hcol) ==
    LET setor == setor_of(row, columns)
        periodo == periodo_of(row, columns)
        ticker_clean == remove_numbers_from_ticker(ticker_of(row))
        data == to_datetime(row.Data)
        st == start_of(row, columns, hcol)
        start_dt == st[1]
        time_desc == st[2]
        period_label == extract_period_quarter(periodo)
    IN  [ name |-> make_title(ticker_clean, period_label, time_desc),
          begin |-> start_dt,
          end |-> AddMinutes(start_dt, EVENT_DURATION_MIN),
          description |-> join(<<"\n">>,
              make_desc_lines(ticker_clean, data, time_desc, periodo, setor)),
          uid |-> event_uid(row, columns, hcol),
          categories |-> IF setor # <<>> /\ lower(setor) # str_nan
                         THEN {setor} ELSE {} ]

\* cal.events.add(event): cal.events is a set and an ics Event is hashed and
\* compared by its uid, so an event whose uid the set holds is not added
cal_add(events, event) ==
    IF \E e \in events : e.uid = event.uid THEN events ELSE events \cup {event}

---------------------------------------------------------------------------
(* The flow as a state machine *)

NoFile == [exists |-> FALSE, events |-> {}]

\* build_calendar is not running
BuildIdle ==
    /\ sector_map = <<>>
    /\ base = <<>>
    /\ pos = 0
    /\ bc_rows = <<>>
    /\ invalid = <<>>
    /\ bds_log = <<>>

\* Path(INPUT_XLSX).exists() is false: FileNotFoundError
FlowFailsNoInput ==
    /\ pc = "start"
    /\ ~input_exists
    /\ pc' = "failed"
    /\ error' = FileNotFoundError
    /\ UNCHANGED << input_exists, df, hour_col, idx, cal, eventos_criados,
                    eventos_ignorados, output_file, runs, call, ret, bvars >>

\* a required column is missing: ValueError
FlowFailsMissingCols ==
    /\ pc = "start"
    /\ input_exists
    /\ missing_cols(df.columns) # <<>>
    /\ pc' = "failed"
    /\ error' = ValueError
    /\ UNCHANGED << input_exists, df, hour_col, idx, cal, eventos_criados,
                    eventos_ignorados, output_file, runs, call, ret, bvars >>

\* the sheet is read and valid: hour column picked, calendar and counters made
FlowBegins ==
    /\ pc = "start"
    /\ input_exists
    /\ missing_cols(df.columns) = <<>>
    /\ hour_col' = pick_hour_col(df.columns)
    /\ cal' = {}
    /\ eventos_criados' = 0
    /\ eventos_ignorados' = 0
    /\ idx' = 0
    /\ pc' = "loop"
    /\ UNCHANGED << input_exists, df, error, output_file, runs, call, ret, bvars >>

\* an iteration that ends in one of the two `continue`s
SkipRow ==
    /\ pc = "loop"
    /\ idx < Len(df.rows)
    /\ row_ignored(df.rows[idx + 1])
    /\ eventos_ignorados' = eventos_ignorados + 1
    /\ idx' = idx + 1
    /\ UNCHANGED << input_exists, df, pc, error, hour_col, cal, eventos_criados,
                    output_file, runs, call, ret, bvars >>

\* an iteration that reaches cal.events.add(event), or raises on the way
AddEvent ==
    /\ pc = "loop"
    /\ idx < Len(df.rows)
    /\ ~row_ignored(df.rows[idx + 1])
    /\ LET row == df.rows[idx + 1]
           exc == row_exception(row, df.columns, hour_col)
       IN  IF exc # None
           THEN /\ pc' = "failed"
                /\ error' = exc
                /\ UNCHANGED << idx, cal, eventos_criados >>
           ELSE /\ cal' = cal_add(cal, build_event(row, df.columns, hour_col))
                /\ eventos_criados' = eventos_criados + 1
                /\ idx' = idx + 1
                /\ UNCHANGED << pc, error >>
    /\ UNCHANGED << input_exists, df, hour_col, eventos_ignorados, output_file,
                    runs, call, ret, bvars >>

\* the loop is over: the output directory is made and the calendar written
WriteOutput ==
    /\ pc = "loop"
    /\ idx = Len(df.rows)
    /\ output_file' = [exists |-> TRUE, events |-> cal]
    /\ pc' = "done"
    /\ UNCHANGED << input_exists, df, error, hour_col, idx, cal, eventos_criados,
                    eventos_ignorados, runs, call, ret, bvars >>

\* the script is run again over the same workbook; the locals of the flow
\* start afresh, the output file of the earlier run is still on disk
Rerun ==
    /\ pc \in {"done", "failed"}
    /\ runs < MaxRuns
    /\ runs' = runs + 1
    /\ pc' = "start"
    /\ error' = None
    /\ hour_col' = "None"
    /\ idx' = 0
    /\ cal' = {}
    /\ eventos_criados' = 0
    /\ eventos_ignorados' = 0
    /\ UNCHANGED << input_exists, df, output_file, call, ret, bvars >>

Next ==
    \/ FlowFailsNoInput
    \/ FlowFailsMissingCols
    \/ FlowBegins
    \/ SkipRow
    \/ AddEvent
    \/ WriteOutput
    \/ Rerun

\* the state before the first run of the flow over the sheet d
InitFlow(exists, d) ==
    /\ input_exists = exists
    /\ df = d
    /\ pc = "start"
    /\ error = None
    /\ hour_col = "None"
    /\ idx = 0
    /\ cal = {}
    /\ eventos_criados = 0
    /\ eventos_ignorados = 0
    /\ output_file = NoFile
    /\ runs = 1
    /\ call = <<>>
    /\ ret = <<>>
    /\ BuildIdle

---------------------------------------------------------------------------
(* Sheets the flow is run on *)

StdColumns ==
    { "Setor", "Ticker", "BBG Ticker", "Período", "Data", "Hora (raw)",
      "Hora (parsed)", "DataHora (local)" }

ColumnSets ==
    { StdColumns,
      StdColumns \ {"Hora (raw)", "Hora (parsed)"},
      {"Ticker", "Data", "Setor", "Período", "Hora"},
      {"Ticker", "Data", "announcement_time"},
      {"Ticker", "Data"},
      StdColumns \ {"Ticker"},
      StdColumns \ {"Data"},
      {"Setor", "Período"} }

Row(ticker, data, setor, periodo, hora) ==
    [Ticker |-> ticker, Data |-> data, Setor |-> setor, Periodo |-> periodo,
     Hora |-> hora]

SampleRows ==
    { Row(Text(<<"P","E","T","R","4">>), DateCell(2024, 11, 14), Text(<<"O","i","l"," ","&"," ","G","a","s">>), Text(<<"4","T","2","4">>), Text(<<"A","f","t","-","m","k","t">>)),
      Row(Text(<<"P","E","T","R","3">>), DateCell(2024, 11, 14), Text(<<"O","i","l"," ","&"," ","G","a","s">>), Text(<<"4","T","2","4">>), Text(<<"A","f","t","-","m","k","t">>)),
      Row(Text(<<"P","E","T","R","4">>), DateCell(2024, 11, 14), Text(<<"T","M","T">>), Text(<<"4","T","2","4">>), Text(<<"A","F","T","M","K","T">>)),
      Row(Text(<<"V","A","L","E","3">>), DateCell(2024, 11, 14), Text(<<"M","e","t","a","l","s"," ","&"," ","M","i","n","i","n","g">>), Text(<<"3","T","2","4">>), Text(<<"0","9",":","3","0">>)),
      Row(Text(<<"B","3","S","A","3">>), DateCell(2025, 1, 1), Text(<<"F","i","n","a","n","c","i","a","l","s"," ","E","x","-","B","a","n","c","o","s">>), NaN, NaN),
      Row(Text(<<"W","E","G","E","3">>), DateCell(2024, 3, 1), Text(<<"B","e","n","s"," ","d","e"," ","C","a","p","i","t","a","l">>), Text(<<"4","Q","2","4">>), Text(<<"2","5",":","0","0">>)),
      Row(NaN, DateCell(2024, 11, 14), Text(<<"B","a","n","c","o","s">>), Text(<<"4","T","2","4">>), Text(<<"B","e","f","-","m","k","t">>)),
      Row(Text(<<" "," ">>), DateCell(2024, 11, 14), NaN, NaN, NaN),
      Row(Text(<<"I","T","U","B","4">>), Text(<<"T","B","D">>), Text(<<"B","a","n","c","o","s">>), Text(<<"4","T","2","4">>), Text(<<"B","e","f","-","m","k","t">>)) }

\* every sheet of at most MaxRows sample rows
Sheets ==
    { [columns |-> c, rows |-> r] :
        c \in ColumnSets, r \in UNION { [1..n -> SampleRows] : n \in 0..MaxRows } }

Init ==
    \/ \E d \in Sheets : InitFlow(TRUE, d)
    \/ InitFlow(FALSE, [columns |-> {}, rows |-> <<>>])

Spec == Init /\ [][Next]_vars

\* one-row sheets, the row drawn from a product of cell values
RowTickers == { Text(<<"P","E","T","R","4">>), Text(<<"B","3","S","A","3">>), Text(<<"V","A","L","E">>), Text(<<" ","N","A","N"," ">>), NaN }
RowDates ==
    { DateCell(2024, 11, 14), DateCell(2024, 3, 1), DateCell(2025, 1, 1),
      Text(<<"2","0","2","4","-","1","2","-","0","1">>), Text(<<"T","B","D">>), NaN }
RowSetores == { Text(<<"B","a","n","c","o","s">>), Text(<<"T","M","T">>), Text(<<"B","e","n","s"," ","d","e"," ","C","a","p","i","t","a","l">>), NaN }
RowPeriodos ==
    { Text(<<"4","T","2","4">>), Text(<<"4","Q","2","4">>), Text(<<"1","0","T","2","0","2","4">>), Text(<<"F","Y","2","4">>), Text(<<"4","t","2","4">>),
      Text(<<" ">>), NaN }
RowHoras ==
    { NaN, Text(<<" ">>), Text(<<"0","9",":","3","0">>), Text(<<"9",":","0","5">>), Text(<<" ","2","3",":","5","9"," ">>), Text(<<"2","5",":","0","0">>),
      Text(<<"1","2",":","6","0">>), Text(<<"A","f","t","-","m","k","t">>), Text(<<"a","f","t","_","m","k","t">>), Text(<<"A","F","T","M","K","T">>),
      Text(<<"B","e","f","-","m","k","t">>), Text(<<"d","u","r"," ","m","k","t">>), Text(<<"T","B","D">>), TimeCell(9, 30) }

ProductRows ==
    { Row(t, d, s, p, h) :
        t \in RowTickers, d \in RowDates, s \in RowSetores, p \in RowPeriodos,
        h \in RowHoras }

InitRow ==
    \/ \E r \in ProductRows : InitFlow(TRUE, [columns |-> StdColumns, rows |-> <<r>>])
    \/ \E c \in ColumnSets, r \in SampleRows :
          InitFlow(TRUE, [columns |-> c, rows |-> <<r>>])
    \/ InitFlow(FALSE, [columns |-> {}, rows |-> <<>>])

SpecRow == InitRow /\ [][Next]_vars

---------------------------------------------------------------------------
(* determine_start_time called on its own *)

CallDates == { <<2024, 11, 14>>, <<2024, 3, 1>>, <<2025, 1, 1>>, <<2023, 3, 1>>, <<2024, 12, 31>> }
CallSetores == { <<"B","a","n","c","o","s">>, <<"T","M","T">>, <<"H","e","a","l","t","h","c","a","r","e">>, <<"R","e","n","t","a","l","s">>, <<"B","e","n","s"," ","d","e"," ","C","a","p","i","t","a","l">>, <<>> }
CallTimes == { None, time(9, 30), time(0, 0), time(23, 59), time(18, 0) }
CallTags == { None, AFT_MKT, BEF_MKT, DUR_MKT }

InitResolve ==
    /\ call \in CallDates \X CallSetores \X CallTimes \X CallTags
    /\ ret = None
    /\ input_exists = FALSE
    /\ df = [columns |-> {}, rows |-> <<>>]
    /\ pc = "call"
    /\ error = None
    /\ hour_col = "None"
    /\ idx = 0
    /\ cal = {}
    /\ eventos_criados = 0
    /\ eventos_ignorados = 0
    /\ output_file = NoFile
    /\ runs = 0
    /\ BuildIdle

Resolve ==
    /\ pc = "call"
    /\ ret' = determine_start_time(call[1], call[2], call[3], call[4])
    /\ pc' = "returned"
    /\ UNCHANGED << input_exists, df, error, hour_col, idx, cal, eventos_criados,
                    eventos_ignorados, output_file, runs, call, bvars >>

NextResolve == Resolve

SpecResolve == InitResolve /\ [][NextResolve]_vars

---------------------------------------------------------------------------
(* Properties of determine_start_time, checked under SpecResolve *)

Returned == pc = "returned"
arg_d == call[1]
arg_setor == call[2]
arg_hhmm == call[3]
arg_mkt == call[4]

\* s holds sub as a run of consecutive characters
Contains(s, sub) ==
    \E i \in 0..(Len(s) - Len(sub)) : SubSeq(s, i + 1, i + Len(sub)) = sub

\* the label reads HH:MM for the time t
IsHHMMOf(label, t) ==
    /\ Len(label) = 5
    /\ \A i \in {1, 2, 4, 5} : IsDigit(label[i])
    /\ label[3] = ":"
    /\ int(SubSeq(label, 1, 2)) = t[1]
    /\ int(SubSeq(label, 4, 5)) = t[2]

\* days from 2000-01-01 to the date d, counted month by month
RECURSIVE DaysBeforeYear(_)
DaysBeforeYear(y) ==
    IF y <= 2000 THEN 0
    ELSE DaysBeforeYear(y - 1) + (IF IsLeap(y - 1) THEN 366 ELSE 365)
RECURSIVE DaysBeforeMonth(_, _)
DaysBeforeMonth(y, m) ==
    IF m <= 1 THEN 0 ELSE DaysBeforeMonth(y, m - 1) + DaysInMonth(y, m - 1)
Ordinal(d) == DaysBeforeYear(d[1]) + DaysBeforeMonth(d[1], d[2]) + d[3]

\* C1: the first matching rule wins.  With an explicit time the start is the
\* given date at that time and the label is its HH:MM, whatever the session
\* tag and the sector; otherwise with a session tag the start time and the
\* label are the tag's, whatever the sector; the coverage-group label and
\* time appear only when there is neither explicit time nor session tag.
C1_Precedence ==
    Returned =>
        /\ arg_hhmm # None =>
              /\ ret[1] = << arg_d, arg_hhmm, TZ >>
              /\ IsHHMMOf(ret[2], arg_hhmm)
        /\ (arg_hhmm = None /\ arg_mkt # None) =>
              /\ ret[1][2] = (CASE arg_mkt = AFT_MKT -> <<18, 0>>
                                [] arg_mkt = BEF_MKT -> <<8, 0>>
                                [] arg_mkt = DUR_MKT -> <<12, 0>>)
              /\ ret[2] = (CASE arg_mkt = AFT_MKT -> str_Pos_mercado
                             [] arg_mkt = BEF_MKT -> str_Pre_mercado
                             [] arg_mkt = DUR_MKT -> str_Durante_mercado)
        /\ StartsWith(ret[2], str_Notificacao) =>
              (arg_hhmm = None /\ arg_mkt = None)

\* 09:30 together with the post-market tag, for a sector with a coverage group
C1_Witness ==
    /\ Returned
    /\ call = << <<2024, 11, 14>>, <<"T","M","T">>, <<9, 30>>, AFT_MKT >>
    /\ ret = << << <<2024, 11, 14>>, <<9, 30>>, TZ >>, <<"0","9",":","3","0">> >>

C3_CoverageFallback ==
    (Returned /\ arg_hhmm = None /\ arg_mkt = None) =>
        /\ InList(arg_setor, COBERTURA_ARTHUR) =>
              /\ ret[1] = << arg_d, <<7, 0>>, TZ >>
              /\ Contains(ret[2], Arthur)
              /\ Contains(ret[2], <<"0","7",":","0","0">>)
        /\ (~InList(arg_setor, COBERTURA_ARTHUR) /\ InList(arg_setor, COBERTURA_PAULO)) =>
              /\ ret[1] = << arg_d, <<8, 0>>, TZ >>
              /\ Contains(ret[2], Paulo)
              /\ Contains(ret[2], <<"0","8",":","0","0">>)

C3_Witness ==
    /\ Returned
    /\ call = << <<2024, 11, 14>>, <<"R","e","n","t","a","l","s">>, None, None >>
    /\ ret[1] = << <<2024, 11, 14>>, <<8, 0>>, TZ >>

---------------------------------------------------------------------------
(* Properties of the flow *)

Running == pc \in {"loop", "done"}
LoopOver == pc = "loop" /\ idx = Len(df.rows)

\* a row the flow is to skip: its ticker is empty or the null marker, or its
\* date cannot be parsed
Defective(row) ==
    \/ strip(str(row.Ticker)) = <<>>
    \/ lower(strip(str(row.Ticker))) = <<"n","a","n">>
    \/ to_datetime(row.Data) = NaT

\* the rows the loop has been through, and those of them it is to keep
Processed == SubSeq(df.rows, 1, idx)
Kept(rows) == SelectSeq(rows, LAMBDA r : ~Defective(r))

UidsOf(events) == { e.uid : e \in events }

\* C4: the time field never makes the flow fail or skip a row.  The flow
\* fails only for a missing workbook or column; parse_hhmm gives None or a
\* time of day and normalize_market_tag None or one of the three tags; a row
\* with a valid ticker and date gives exactly one event, whatever its time
\* cell, and with no explicit time, no tag and no coverage group that event
\* starts at 18:00 on the given date with the post-market label.
C4_TimeFieldTotal ==
    /\ pc = "failed" =>
          (~input_exists \/ "Ticker" \notin df.columns \/ "Data" \notin df.columns)
    /\ \A i \in 1..Len(df.rows) :
          LET raw == raw_time_str_of(df.rows[i], pick_hour_col(df.columns))
              h == parse_hhmm(raw)
              m == normalize_market_tag(raw)
          IN  /\ h = None \/ (Len(h) = 2 /\ h[1] \in 0..23 /\ h[2] \in 0..59)
              /\ m \in {None, AFT_MKT, BEF_MKT, DUR_MKT}
    /\ (Running /\ idx = 1 /\ Len(df.rows) = 1 /\ ~Defective(df.rows[1])) =>
          LET row == df.rows[1]
              raw == raw_time_str_of(row, hour_col)
              nosignal == /\ parse_hhmm(raw) = None
                          /\ normalize_market_tag(raw) = None
                          /\ get_analyst_from_sector(setor_of(row, df.columns)) = None
          IN  /\ eventos_criados = 1
              /\ eventos_ignorados = 0
              /\ Cardinality(cal) = 1
              /\ \A e \in cal :
                    /\ e.begin[2][1] \in 0..23 /\ e.begin[2][2] \in 0..59
                    /\ nosignal =>
                          /\ e.begin = << to_datetime(row.Data), <<18, 0>>, TZ >>
                          /\ Contains(e.description, str_Horario_ \o <<"P","ó","s","-","m","e","r","c","a","d","o">>)

\* the out-of-range time 25:00 in a sector without coverage group
C4_Witness ==
    /\ pc = "done"
    /\ Len(df.rows) = 1
    /\ df.rows[1].Hora = Text(<<"2","5",":","0","0">>)
    /\ df.rows[1].Setor = Text(<<"B","e","n","s"," ","d","e"," ","C","a","p","i","t","a","l">>)
    /\ eventos_criados = 1
    /\ \E e \in cal : e.begin[2] = <<18, 0>>

\* the uid the claim gives a kept row: NAMESPACE_URL and the display ticker,
\* the period or null marker, the ISO date and the timing label, in this
\* order, joined by "|"
ClaimedUid(row) ==
    [ namespace |-> "NAMESPACE_URL",
      name |-> remove_numbers_from_ticker(strip(str(row.Ticker))) \o <<"|">>
               \o str_or_None(periodo_of(row, df.columns)) \o <<"|">>
               \o isoformat(to_datetime(row.Data)) \o <<"|">>
               \o start_of(row, df.columns, hour_col)[2] ]

\* C5: the uid of an event is a function of (display ticker, period or null
\* marker, ISO date, timing label) alone, so the uids of the calendar are
\* those of the kept rows, and a second run over the same sheet builds the
\* set of uids the first run wrote.
C5_StableId ==
    /\ Running =>
          UidsOf(cal) = { ClaimedUid(Kept(Processed)[i]) : i \in 1..Len(Kept(Processed)) }
    /\ (LoopOver /\ output_file.exists) => UidsOf(cal) = UidsOf(output_file.events)

\* the second run has built two events and is about to write them
C5_Witness ==
    /\ LoopOver
    /\ runs = 2
    /\ output_file.exists
    /\ Cardinality(UidsOf(cal)) = 2

\* C6 (as claimed): rows kept by the flow with pairwise different tickers
\* give events with pairwise different uids, as many as the rows.
C6_OneEventPerTicker ==
    (pc = "done" /\ \A i, j \in 1..Len(Kept(df.rows)) :
                        i # j => Kept(df.rows)[i].Ticker # Kept(df.rows)[j].Ticker)
        => Cardinality(UidsOf(cal)) = Len(Kept(df.rows))

\* the period label of the claim: <n>T<yy> becomes <n>Q<yy>, <n>Q<yy> stays,
\* anything else (missing, blank, null marker, other text) is Resultados
IsQuarter(s, letter) == MatchQuarter(s, letter) # None /\ Len(s) = DigitRun(s) + 3
ClaimedPeriodLabel(periodo) ==
    IF periodo = None THEN str_Resultados
    ELSE IF IsQuarter(periodo, "Q") THEN periodo
    ELSE IF IsQuarter(periodo, "T")
         THEN SubSeq(periodo, 1, DigitRun(periodo)) \o <<"Q">>
              \o SubSeq(periodo, DigitRun(periodo) + 2, Len(periodo))
    ELSE str_Resultados

\* C7 (as claimed): the title of the event of a row holds the period label
\* of the claim.
C7_PeriodLabel ==
    (pc = "done" /\ Len(df.rows) = 1 /\ eventos_criados = 1) =>
        \A e \in cal :
            StartsWith(e.name,
                <<"[">> \o remove_numbers_from_ticker(ticker_of(df.rows[1]))
                    \o str_title_mid
                    \o ClaimedPeriodLabel(periodo_of(df.rows[1], df.columns))
                    \o <<" ", "(">>)

\* the display ticker of the claim: the ticker without its trailing digits
RECURSIVE StripTrailingDigits(_)
StripTrailingDigits(t) ==
    IF t # <<>> /\ IsDigit(t[Len(t)])
    THEN StripTrailingDigits(SubSeq(t, 1, Len(t) - 1))
    ELSE t

\* C8 (as claimed): the event of a row shows the ticker without its trailing
\* digits, the digits elsewhere kept.
C8_TrailingDigitsOnly ==
    (pc = "done" /\ Len(df.rows) = 1 /\ eventos_criados = 1) =>
        \A e \in cal :
            StartsWith(e.description,
                str_Ticker_ \o StripTrailingDigits(ticker_of(df.rows[1])) \o <<"\n">>)

\* the calendar of a run over rows none of which is skipped
RECURSIVE CalOf(_, _)
CalOf(events, rows) ==
    IF rows = <<>> THEN events
    ELSE CalOf(cal_add(events, build_event(Head(rows), df.columns, hour_col)),
               Tail(rows))

\* C9: defective rows are skipped and counted, never fatal.  The two counters
\* add up to the rows gone through, the ignored ones are exactly the rows
\* with an empty or "nan" ticker or an unparseable date, the loop never
\* fails and goes through every row, and the calendar is the one the rows
\* without the defective ones give.
C9_SkipAndCount ==
    /\ Running =>
          /\ eventos_criados + eventos_ignorados = idx
          /\ eventos_ignorados = Len(Processed) - Len(Kept(Processed))
          /\ cal = CalOf({}, Kept(Processed))
    /\ pc = "done" => idx = Len(df.rows)
    /\ pc = "failed" => idx = 0

\* a defective row followed by a good one
C9_Witness ==
    /\ pc = "done"
    /\ Len(df.rows) = 2
    /\ Defective(df.rows[1])
    /\ ~Defective(df.rows[2])
    /\ eventos_criados = 1
    /\ eventos_ignorados = 1
    /\ Cardinality(cal) = 1

\* C10: a sheet without the Ticker or the Data column makes the flow fail
\* with ValueError before any row is gone through: no event, no count, no
\* output file; a sheet with both columns never fails so.
C10_MissingColumnFatal ==
    LET lacks == "Ticker" \notin df.columns \/ "Data" \notin df.columns
    IN  /\ (input_exists /\ lacks) =>
              /\ pc \in {"start", "failed"}
              /\ pc = "failed" => error = ValueError
              /\ idx = 0
              /\ cal = {}
              /\ eventos_criados = 0
              /\ eventos_ignorados = 0
              /\ ~output_file.exists
        /\ ~lacks => ~(pc = "failed" /\ error = ValueError)

\* the Data column is missing from a sheet of two rows
C10_Witness ==
    /\ pc = "failed"
    /\ error = ValueError
    /\ "Ticker" \in df.columns
    /\ "Data" \notin df.columns
    /\ Len(df.rows) = 2

---------------------------------------------------------------------------
(* earns_calendar.py: build_calendar over the Bloomberg answers *)

\* the most (sector, ticker) entries of a sector dict
MaxTickers == 3

HIST_FIELD == "EARN_ANN_DT_TIME_HIST_WITH_EPS"

earns_DEFAULT_TIME_MAP ==
    (AFT_MKT :> time(18, 0)) @@ (BEF_MKT :> time(8, 0)) @@ (DUR_MKT :> time(12, 0))

\* the printable ASCII characters in code point order: 32 to 95, 97 to 126
AsciiLow ==
    << " ", "!", "\"", "#", "$", "%", "&", "'", "(", ")", "*", "+", ",",
       "-", ".", "/", "0", "1", "2", "3", "4", "5", "6", "7", "8", "9", ":",
       ";", "<", "=", ">", "?", "@", "A", "B", "C", "D", "E", "F", "G", "H",
       "I", "J", "K", "L", "M", "N", "O", "P", "Q", "R", "S", "T", "U", "V",
       "W", "X", "Y", "Z", "[", "\\", "]", "^", "_" >>
AsciiHigh ==
    << "a", "b", "c", "d", "e", "f", "g", "h", "i", "j", "k", "l", "m", "n",
       "o", "p", "q", "r", "s", "t", "u", "v", "w", "x", "y", "z", "{", "|",
       "}", "~" >>
ord(c) ==
    IF \E i \in 1..Len(AsciiLow) : AsciiLow[i] = c
    THEN 31 + (CHOOSE i \in 1..Len(AsciiLow) : AsciiLow[i] = c)
    ELSE 96 + (CHOOSE i \in 1..Len(AsciiHigh) : AsciiHigh[i] = c)

\* a < b for Python str
StrLess(a, b) ==
    \E i \in 1..(Len(a) + 1) :
        /\ i <= Len(b)
        /\ SubSeq(a, 1, i - 1) = SubSeq(b, 1, i - 1)
        /\ i = Len(a) + 1 \/ ord(a[i]) < ord(b[i])

\* a < b for dates <<y, m, d>>
DateLess(a, b) ==
    \/ a[1] < b[1]
    \/ a[1] = b[1] /\ a[2] < b[2]
    \/ a[1] = b[1] /\ a[2] = b[2] /\ a[3] < b[3]

\* a < b for times <<h, m>>
TimeLess(a, b) == a[1] < b[1] \/ (a[1] = b[1] /\ a[2] < b[2])

parse_time(val) ==
    IF isna(val) THEN None
    ELSE LET s == strip(str(val))
             m == MatchHHMM(s)
         IN  IF s = <<>> THEN None
             ELSE IF m # None
             THEN LET h == int(m[1])
                      mi == int(m[2])
                  IN  IF 0 <= h /\ h <= 23 /\ 0 <= mi /\ mi <= 59
                      THEN time(h, mi)
                      ELSE None
             ELSE LET k1 == replace(replace(upper(s), <<" ">>, <<>>), <<"_">>, <<"-">>)
                      key == replace(replace(replace(k1, AFTMKT, AFT_MKT),
                                             BEFMKT, BEF_MKT), DURMKT, DUR_MKT)
                  IN  IF key \in DOMAIN earns_DEFAULT_TIME_MAP
                      THEN earns_DEFAULT_TIME_MAP[key]
                      ELSE None

\* bbg_ticker.split()[0]: the first run of non-whitespace characters
FirstToken(s) ==
    LET t == lstrip(s)
        stops == { i \in 1..Len(t) : t[i] \in Whitespace }
    IN  IF stops = {} THEN t
        ELSE SubSeq(t, 1, (CHOOSE i \in stops : \A j \in stops : i <= j) - 1)

short_ticker(bbg_ticker) == strip(FirstToken(bbg_ticker))

\* the rows of one sector, blank tickers left out
SectorRows(sector, tickers) ==
    LET Rec(t) == [Setor |-> sector, BBG_Ticker |-> strip(t),
                   Ticker |-> short_ticker(strip(t))]
        RECURSIVE Go(_)
        Go(n) == IF n = 0 THEN <<>>
                 ELSE IF strip(tickers[n]) = <<>> THEN Go(n - 1)
                 ELSE Append(Go(n - 1), Rec(tickers[n]))
    IN  Go(Len(tickers))

\* rows of sector_dict.items(), sector after sector
RECURSIVE FlatRows(_)
FlatRows(sector_dict) ==
    IF sector_dict = <<>> THEN <<>>
    ELSE LET n == Len(sector_dict)
         IN  FlatRows(SubSeq(sector_dict, 1, n - 1))
                \o SectorRows(sector_dict[n][1], sector_dict[n][2])

\* DataFrame.drop_duplicates(subset="__key", keep="first")
RECURSIVE drop_duplicates(_)
drop_duplicates(rs) ==
    IF rs = <<>> THEN <<>>
    ELSE LET n == Len(rs)
             kept == drop_duplicates(SubSeq(rs, 1, n - 1))
         IN  IF \E i \in 1..Len(kept) : kept[i].key = rs[n].key
             THEN kept
             ELSE Append(kept, rs[n])

\* the frame with the column __key, and with the column dropped again
with_key(rs, keys) == [i \in 1..Len(rs) |-> [row |-> rs[i], key |-> keys[i]]]
drop_key(rs) == [i \in 1..Len(rs) |-> rs[i].row]

\* the duplicates compared with upper and lower case kept apart
flatten_sector_dict_exact_case(sector_dict) ==
    LET rs == FlatRows(sector_dict)
        keys == [i \in 1..Len(rs) |-> rs[i].BBG_Ticker]
    IN  drop_key(drop_duplicates(with_key(rs, keys)))

flatten_sector_dict(sector_dict) ==
    LET rs == FlatRows(sector_dict)
        keys == [i \in 1..Len(rs) |-> upper(rs[i].BBG_Ticker)]
    IN  drop_key(drop_duplicates(with_key(rs, keys)))

\* pd.Timestamp.today().normalize(), the day of the run
today == <<2024, 11, 14>>

required == { <<"y","e","a","r","/","p","e","r","i","o","d">>,
              <<"a","n","n","o","u","n","c","e","m","e","n","t","_","d","a","t","e">>,
              <<"a","n","n","o","u","n","c","e","m","e","n","t","_","t","i","m","e">> }

\* what blp.bds(bbg_ticker, HIST_FIELD) did: kind "raise" (exception exc),
\* "none" (returned None) or "df" (a frame of columns and rows)
BdsRaises(exc) == [kind |-> "raise", exc |-> exc, columns |-> <<>>, rows |-> <<>>]
BdsNone == [kind |-> "none", exc |-> "", columns |-> <<>>, rows |-> <<>>]
BdsFrame(columns, rs) == [kind |-> "df", exc |-> "", columns |-> columns, rows |-> rs]
BdsRow(per, d, t) ==
    [period |-> per, announcement_date |-> d, announcement_time |-> t]

\* the frame fetch_future_events_for_ticker returns for the answer of blp.bds
fetch_future_events_for_ticker(answer) ==
    IF answer.kind = "none" \/ answer.rows = <<>> THEN <<>>
    ELSE LET columns == { lower(strip(answer.columns[i])) :
                             i \in 1..Len(answer.columns) }
             dated == [i \in 1..Len(answer.rows) |->
                          [answer.rows[i] EXCEPT
                              !.announcement_date = to_datetime(@)]]
             Future(r) == /\ r.announcement_date # NaT
                          /\ ~DateLess(r.announcement_date, today)
         IN  IF ~(required \subseteq columns) THEN <<>>
             ELSE SelectSeq(dated, Future)

\* the dict build_calendar appends to rows for the row r of the frame
calendar_row(meta, r) ==
    LET tm_raw == r.announcement_time
        tm == parse_time(tm_raw)
        d == r.announcement_date
    IN  [Setor |-> meta.Setor,
         Ticker |-> meta.Ticker,
         BBG_Ticker |-> meta.BBG_Ticker,
         Periodo |-> str(r.period),
         Data |-> d,
         Hora_raw |-> IF isna(tm_raw) THEN None ELSE str(tm_raw),
         Hora_parsed |-> tm,
         DataHora_local |-> IF tm # None THEN <<d, tm>> ELSE None]

calendar_rows(meta, frame) ==
    [i \in 1..Len(frame) |-> calendar_row(meta, frame[i])]

\* a goes before b in sort_values(["Setor", "Data", "Hora (parsed)", "Ticker"],
\* na_position="last")
RowLess(a, b) ==
    \/ StrLess(a.Setor, b.Setor)
    \/ /\ a.Setor = b.Setor
       /\ \/ DateLess(a.Data, b.Data)
          \/ /\ a.Data = b.Data
             /\ \/ a.Hora_parsed # None /\ b.Hora_parsed = None
                \/ /\ a.Hora_parsed # None
                   /\ b.Hora_parsed # None
                   /\ TimeLess(a.Hora_parsed, b.Hora_parsed)
                \/ /\ a.Hora_parsed = b.Hora_parsed
                   /\ StrLess(a.Ticker, b.Ticker)

\* the stable sort of the rows
RECURSIVE sort_values(_)
sort_values(rs) ==
    IF rs = <<>> THEN <<>>
    ELSE LET n == Len(rs)
             s == sort_values(SubSeq(rs, 1, n - 1))
             k == Cardinality({ i \in 1..Len(s) : ~RowLess(rs[n], s[i]) })
         IN  SubSeq(s, 1, k) \o << rs[n] >> \o SubSeq(s, k + 1, Len(s))

bds_error(e) == << "bds_error", e >>
no_future_events_or_empty == << "no_future_events_or_empty" >>
empty_sector_dict == << "empty_sector_dict" >>

FlowIdle ==
    /\ input_exists = FALSE
    /\ df = [columns |-> {}, rows |-> <<>>]
    /\ error = None
    /\ hour_col = "None"
    /\ idx = 0
    /\ cal = {}
    /\ eventos_criados = 0
    /\ eventos_ignorados = 0
    /\ output_file = NoFile
    /\ runs = 0
    /\ call = <<>>
    /\ ret = <<>>

flowvars == << input_exists, df, error, hour_col, idx, cal, eventos_criados,
               eventos_ignorados, output_file, runs, call, ret >>

\* sector dicts: two sectors in the order of the dict, MaxTickers tickers
\* between them
Oil_Gas == <<"O","i","l"," ","&"," ","G","a","s">>
Bancos == <<"B","a","n","c","o","s">>
TickerPool ==
    { <<"P","E","T","R","4"," ","B","Z"," ","E","q","u","i","t","y">>,
      <<"p","e","t","r","4"," ","b","z"," ","e","q","u","i","t","y">>,
      <<" ","I","T","U","B","4"," ","B","Z"," ","E","q","u","i","t","y"," ">>,
      <<" "," ">> }
TickerLists == UNION { [1..n -> TickerPool] : n \in 0..MaxTickers }
SectorMaps ==
    { << <<Oil_Gas, l1>>, <<Bancos, l2>> >> :
        <<l1, l2>> \in { p \in TickerLists \X TickerLists :
                            Len(p[1]) + Len(p[2]) <= MaxTickers } }

\* answers of blp.bds
GoodColumns ==
    << <<"Y","e","a","r","/","P","e","r","i","o","d">>,
       <<"A","n","n","o","u","n","c","e","m","e","n","t","_","D","a","t","e">>,
       <<" ","A","n","n","o","u","n","c","e","m","e","n","t","_","T","i","m","e">> >>
OtherColumns ==
    << <<"Y","e","a","r","/","P","e","r","i","o","d">>,
       <<"A","n","n","o","u","n","c","e","m","e","n","t"," ","D","a","t","e">>,
       <<"A","n","n","o","u","n","c","e","m","e","n","t"," ","T","i","m","e">> >>
row_past ==
    BdsRow(Text(<<"2","0","2","4",":","Q","2">>), DateCell(2024, 8, 8),
           Text(<<"A","f","t","-","m","k","t">>))
row_today ==
    BdsRow(Text(<<"2","0","2","4",":","Q","3">>), DateCell(2024, 11, 14),
           Text(<<"1","8",":","3","0">>))
row_future ==
    BdsRow(Text(<<"2","0","2","4",":","Q","4">>),
           Text(<<"2","0","2","5","-","0","2","-","2","0">>), NaN)
row_undated ==
    BdsRow(Text(<<"2","0","2","5",":","Q","1">>), NaN, NaN)
BdsAnswers ==
    { BdsRaises("ConnectionError"),
      BdsNone,
      BdsFrame(GoodColumns, <<>>),
      BdsFrame(OtherColumns, << row_future >>),
      BdsFrame(GoodColumns, << row_past, row_undated >>),
      BdsFrame(GoodColumns, << row_future, row_past, row_today >>) }

\* build_calendar finds no ticker in the sector dict
BuildEmpty ==
    /\ pc = "build"
    /\ flatten_sector_dict(sector_map) = <<>>
    /\ base' = <<>>
    /\ bc_rows' = <<>>
    /\ invalid' = << [BBG_Ticker |-> None, reason |-> empty_sector_dict] >>
    /\ pc' = "built"
    /\ UNCHANGED << flowvars, sector_map, pos, bds_log >>

BuildBegins ==
    /\ pc = "build"
    /\ flatten_sector_dict(sector_map) # <<>>
    /\ base' = flatten_sector_dict(sector_map)
    /\ pc' = "tickers"
    /\ UNCHANGED << flowvars, sector_map, pos, bc_rows, invalid, bds_log >>

\* the answers of blp.bds
BdsRequest(answer) ==
    /\ pc = "tickers"
    /\ pos < Len(base)
    /\ bds_log' = Append(bds_log, << base[pos + 1].BBG_Ticker, HIST_FIELD, answer >>)

\* blp.bds raises: the ticker goes to invalid and the loop goes on
FetchRaises ==
    \E answer \in BdsAnswers :
        /\ BdsRequest(answer)
        /\ answer.kind = "raise"
        /\ invalid' = Append(invalid,
                [Setor |-> base[pos + 1].Setor,
                 BBG_Ticker |-> base[pos + 1].BBG_Ticker,
                 reason |-> bds_error(answer.exc)])
        /\ pos' = pos + 1
        /\ UNCHANGED << flowvars, pc, sector_map, base, bc_rows >>

\* the frame of future events is empty
FetchEmpty ==
    \E answer \in BdsAnswers :
        /\ BdsRequest(answer)
        /\ answer.kind # "raise"
        /\ fetch_future_events_for_ticker(answer) = <<>>
        /\ invalid' = Append(invalid,
                [Setor |-> base[pos + 1].Setor,
                 BBG_Ticker |-> base[pos + 1].BBG_Ticker,
                 reason |-> no_future_events_or_empty])
        /\ pos' = pos + 1
        /\ UNCHANGED << flowvars, pc, sector_map, base, bc_rows >>

\* one row per row of the frame of future events
AppendRows ==
    \E answer \in BdsAnswers :
        /\ BdsRequest(answer)
        /\ answer.kind # "raise"
        /\ fetch_future_events_for_ticker(answer) # <<>>
        /\ bc_rows' = bc_rows \o
                calendar_rows(base[pos + 1], fetch_future_events_for_ticker(answer))
        /\ pos' = pos + 1
        /\ UNCHANGED << flowvars, pc, sector_map, base, invalid >>

\* after the last ticker: cal sorted, inv as it stands
BuildReturns ==
    /\ pc = "tickers"
    /\ pos = Len(base)
    /\ bc_rows' = sort_values(bc_rows)
    /\ pc' = "built"
    /\ UNCHANGED << flowvars, sector_map, base, pos, invalid, bds_log >>

NextBuild ==
    \/ BuildEmpty
    \/ BuildBegins
    \/ FetchRaises
    \/ FetchEmpty
    \/ AppendRows
    \/ BuildReturns

InitBuild ==
    /\ FlowIdle
    /\ pc = "build"
    /\ sector_map \in SectorMaps
    /\ base = <<>>
    /\ pos = 0
    /\ bc_rows = <<>>
    /\ invalid = <<>>
    /\ bds_log = <<>>

SpecBuild == InitBuild /\ [][NextBuild]_vars

---------------------------------------------------------------------------
(* Properties of build_calendar, checked under SpecBuild *)

\* the places <<sector, ticker>> of the sector dict, in the order of the dict
Entries ==
    UNION { { <<si, ti>> : ti \in 1..Len(sector_map[si][2]) } :
               si \in 1..Len(sector_map) }
EntrySector(p) == sector_map[p[1]][1]
EntryTicker(p) == sector_map[p[1]][2][p[2]]
\* s with its capital letters made small
SmallOf == [c \in { UpperChars[i] : i \in 1..26 } |->
               LowerChars[CHOOSE i \in 1..26 : UpperChars[i] = c]]
CaseFold(s) ==
    [i \in 1..Len(s) |-> IF s[i] \in DOMAIN SmallOf THEN SmallOf[s[i]] ELSE s[i]]
Blank(p) == \A i \in 1..Len(EntryTicker(p)) : EntryTicker(p)[i] \in Whitespace
SameTicker(p, q) == CaseFold(strip(EntryTicker(p))) = CaseFold(strip(EntryTicker(q)))
Earlier(p, q) == p[1] < q[1] \/ (p[1] = q[1] /\ p[2] < q[2])

\* the first place of each ticker that is not blank
FirstOccurrences ==
    LET key == [p \in Entries |-> CaseFold(strip(EntryTicker(p)))]
    IN  { p \in Entries :
            /\ key[p] # <<>>
            /\ \A q \in Entries : key[q] = key[p] => ~Earlier(q, p) }

\* base holds the first occurrences, each once, under its own sector
BaseIsFirstOccurrences ==
    LET firsts == FirstOccurrences
    IN  /\ Len(base) = Cardinality(firsts)
        /\ { << base[i].Setor, base[i].BBG_Ticker >> : i \in 1..Len(base) }
              = { << EntrySector(p), strip(EntryTicker(p)) >> : p \in firsts }

RowsOf(t) == Cardinality({ k \in 1..Len(bc_rows) : bc_rows[k].BBG_Ticker = t })
InvalidOf(t) == Cardinality({ k \in 1..Len(invalid) : invalid[k].BBG_Ticker = t })
AskedFor(t) == { k \in 1..Len(bds_log) : bds_log[k][1] = t }

\* the date as the number yyyymmdd
YYYYMMDD(d) == d[1] * 10000 + d[2] * 100 + d[3]

\* the announcements of an answer that are dated today or later
FutureAnnouncements(answer) ==
    IF /\ answer.kind = "df"
       /\ required \subseteq { CaseFold(strip(answer.columns[i])) :
                                  i \in 1..Len(answer.columns) }
    THEN Cardinality({ k \in 1..Len(answer.rows) :
            LET d == to_datetime(answer.rows[k].announcement_date)
            IN  d # NaT /\ YYYYMMDD(d) >= YYYYMMDD(today) })
    ELSE 0

\* the ticker at place i of base was asked for once and is accounted for
AccountedOnce(i) ==
    LET t == base[i].BBG_Ticker
    IN  /\ Cardinality(AskedFor(t)) = 1
        /\ LET answer == bds_log[CHOOSE k \in AskedFor(t) : TRUE][3]
               future == FutureAnnouncements(answer)
           IN  \/ /\ answer.kind # "raise"
                  /\ future >= 1
                  /\ RowsOf(t) = future
                  /\ InvalidOf(t) = 0
               \/ /\ answer.kind = "raise" \/ future = 0
                  /\ RowsOf(t) = 0
                  /\ InvalidOf(t) = 1

NotYetReached(i) ==
    LET t == base[i].BBG_Ticker
    IN  AskedFor(t) = {} /\ RowsOf(t) = 0 /\ InvalidOf(t) = 0

\* C11: once build_calendar has flattened the sector dict, base holds each
\* non-blank BBG ticker once (blank ones dropped, tickers that differ only in
\* case counted as one, the first occurrence and its sector kept); every
\* ticker of base the loop has gone through has either one calendar row per
\* future announcement and no Invalid row, or no calendar row and exactly
\* one Invalid row (fetch error, or no future event); every calendar row
\* belongs to a ticker of base; and build_calendar returns only when every
\* ticker of base has been gone through, the ones after a fetch error too.
C11_EveryTickerOnce ==
    pc \in {"tickers", "built"} /\ base # <<>> =>
        /\ BaseIsFirstOccurrences
        /\ \A i \in 1..Len(base) :
              IF i <= pos THEN AccountedOnce(i) ELSE NotYetReached(i)
        /\ \A k \in 1..Len(bc_rows) :
              \E i \in 1..Len(base) : bc_rows[k].BBG_Ticker = base[i].BBG_Ticker
        /\ \A k \in 1..Len(invalid) :
              \E i \in 1..Len(base) : invalid[k].BBG_Ticker = base[i].BBG_Ticker
        /\ pc = "built" => pos = Len(base)

\* build_calendar has returned: a ticker written in two cases was kept once,
\* the fetch of the first ticker raised and gave one Invalid row, and the
\* ticker after it has its two calendar rows
C11_Witness ==
    /\ pc = "built"
    /\ \E p, q \in Entries : p # q /\ ~Blank(p) /\ SameTicker(p, q)
                                /\ EntryTicker(p) # EntryTicker(q)
    /\ Len(base) = 2
    /\ bds_log[1][3].kind = "raise"
    /\ InvalidOf(base[1].BBG_Ticker) = 1
    /\ RowsOf(base[1].BBG_Ticker) = 0
    /\ RowsOf(base[2].BBG_Ticker) = 2
    /\ InvalidOf(base[2].BBG_Ticker) = 0

=============================================================================
